---------------------------- MODULE Spec2Model ----------------------------
(***************************************************************************)
(* HttpPublishQueueAsync: a retained-memory event queue (header + packed   *)
(* records) filled by publish()/clearEvents() and drained by a worker      *)
(* thread running startState / checkQueueState / waitRetryState.           *)
(*                                                                         *)
(* The retained buffer is modelled byte by byte (offsets 0..RegionSize-1), *)
(* header included, because the record walk (skipEvent) and the cursor     *)
(* arithmetic of publish and discardOldEvent work on raw bytes.            *)
(***************************************************************************)
EXTENDS Integers, Sequences, FiniteSets, TLC

\* ---- bounds of the model ------------------------------------------------
\* retainedBufferSize handed to the constructor
RegionSize == 24
\* longest C string handed to publish (characters, without the terminator)
MaxStrLen == 6
\* longest string found under the names eventName and data inside publish
MaxCopyLen == 1
\* largest port value handed to publish
MaxPort == 2
\* the timer (millis() - lastPublish) is followed up to this value
MaxElapsed == 3030
\* failureRetryMs, the configured retry interval
failureRetryMs == 2020
\* largest numEvents value a disturbed header is given
MaxCorruptCount == 4

\* ---- program constants ---------------------------------------------------
\* sizeof(RetainedBufHeader): uint32 magic, uint16 size, uint16 numEvents
HeaderSize == 8
\* sizeof(EventData): one uint16
EventDataSize == 2
\* minimum interval between two publish attempts (checkQueueState)
MinPublishMs == 1010
\* granularity of the modelled clock
TickMs == MinPublishMs

\* RETAINED_BUF_HEADER_MAGIC = 0xd19cab61, as its four bytes in memory order
MagicBytes == <<97, 171, 156, 209>>

\* strings are told apart by their length only: n times the character 1
Str(n) == [i \in 1..n |-> 1]
\* the (hostName, path, body) triples handed to publish: each string empty or
\* of the longest length, as many long ones as the triple's index says
Triples == {<<Str(0), Str(0), Str(0)>>,
            <<Str(MaxStrLen), Str(0), Str(0)>>,
            <<Str(MaxStrLen), Str(MaxStrLen), Str(0)>>}
\* the strings eventName and data may hold when publish copies them
CopiedStrings == {Str(n) : n \in 0..MaxCopyLen}
Ports == 1..MaxPort

VARIABLES
    mem,          \* retainedBuffer[0..retainedBufferSize-1], header included
    nextFree,     \* the cursor, as an offset into retainedBuffer
    isSending,    \* member flag written by the worker thread
    stateHandler, \* which state function the thread calls next
    elapsed,      \* millis() - lastPublish, the only use made of either
    pc,           \* where the worker thread stands inside checkQueueState
    haveEvent,    \* checkQueueState's local
    request,      \* request.port, the one field checkQueueState reads from the buffer
    status,       \* response.status of the last http.post
    crashed,      \* the firmware faulted (a copy or access left the address space)
    hist          \* history kept for the FIFO scenario: ports accepted by
                  \* publish and ports of the posts that succeeded

vars == <<mem, nextFree, isSending, stateHandler, elapsed, pc,
          haveEvent, request, status, crashed, hist>>

\* ---- the header, read through the RetainedBufHeader overlay -------------
U16At(m, p) == m[p] + 256 * m[p + 1]
HdrMagicOk(m) == \A i \in 1..4 : m[i - 1] = MagicBytes[i]
HdrSize(m) == U16At(m, 4)
NumEvents(m) == U16At(m, 6)
PutU16(m, p, v) ==
    [i \in DOMAIN m |-> IF i = p THEN v % 256
                        ELSE IF i = p + 1 THEN (v \div 256) % 256
                        ELSE m[i]]

\* ---- C string helpers ---------------------------------------------------
\* any offset past the end of the region: where a walk that leaves the
\* region ends up (every such outcome is > end, which is all the callers test)
PastEnd == RegionSize + 4

RECURSIVE NulAt(_, _)
\* offset of the first NUL at or after p; RegionSize if the scan leaves the region
NulAt(m, p) ==
    IF p < 0 \/ p >= RegionSize THEN RegionSize
    ELSE IF m[p] = 0 THEN p ELSE NulAt(m, p + 1)

\* the string stored at p, without its terminator (read inside the region)
StrAt(m, p) == [i \in 1..(NulAt(m, p) - p) |-> m[p + i - 1]]

\* strcpy(&m[p], s): the bytes of s and a terminator; bytes that would fall
\* outside the region are not part of the modelled memory
StrCpy(m, p, s) ==
    [i \in DOMAIN m |-> IF i >= p /\ i < p + Len(s) THEN s[i - p + 1]
                        ELSE IF i = p + Len(s) THEN 0
                        ELSE m[i]]

Align4(n) == IF n % 4 # 0 THEN n + (4 - (n % 4)) ELSE n

\* skipEvent: the offset after the record at start (port, two strings, padding)
skipEvent(m, start) ==
    LET n1 == NulAt(m, start + EventDataSize)
        n2 == NulAt(m, n1 + 1)
    IN  IF start < 0 \/ n1 >= RegionSize \/ n2 >= RegionSize
        THEN PastEnd
        ELSE Align4(n2 + 1)


\* ---- the constructor ----------------------------------------------------
RECURSIVE WalkEvents(_, _, _)
\* the constructor's loop: n calls of skipEvent from p, stopping past the end
WalkEvents(m, p, n) ==
    IF n = 0 THEN p
    ELSE LET q == skipEvent(m, p)
         IN  IF q > RegionSize THEN q ELSE WalkEvents(m, q, n - 1)

\* the header reset of the constructor: magic, size, numEvents = 0
ResetHeader(m) ==
    [i \in DOMAIN m |-> IF i < 4 THEN MagicBytes[i + 1]
                        ELSE IF i = 4 THEN RegionSize % 256
                        ELSE IF i = 5 THEN (RegionSize \div 256) % 256
                        ELSE IF i < HeaderSize THEN 0
                        ELSE m[i]]

\* the constructor with "nextFree >= end" in place of "nextFree > end"
ConstructStrict(m) ==
    LET valid == HdrMagicOk(m) /\ HdrSize(m) = RegionSize
        walked == WalkEvents(m, HeaderSize, NumEvents(m))
        initBuffer == ~valid \/ (NumEvents(m) > 0 /\ walked >= RegionSize)
    IN  IF initBuffer
        THEN [mem |-> ResetHeader(m), nextFree |-> HeaderSize]
        ELSE [mem |-> m, nextFree |-> walked]

\* HttpPublishQueueAsync::HttpPublishQueueAsync over region content m
Construct(m) ==
    LET valid == HdrMagicOk(m) /\ HdrSize(m) = RegionSize
        walked == WalkEvents(m, HeaderSize, NumEvents(m))
        initBuffer == ~valid \/ walked > RegionSize
    IN  IF initBuffer
        THEN [mem |-> ResetHeader(m), nextFree |-> HeaderSize]
        ELSE [mem |-> m, nextFree |-> walked]

\* ---- discardOldEvent ----------------------------------------------------
\* memmove(&m[dst], &m[src], n) with dst <= src, inside the region
MemMove(m, dst, src, n) ==
    [i \in DOMAIN m |-> IF i >= dst /\ i < dst + n THEN m[i + (src - dst)] ELSE m[i]]

\* discardOldEvent without the memmove of lines 179-182
discardOldEventNoMove(m, nf, secondEvent) ==
    LET tooFew == IF secondEvent THEN NumEvents(m) < 2 ELSE NumEvents(m) < 1
        start == IF secondEvent THEN skipEvent(m, HeaderSize) ELSE HeaderSize
        next == skipEvent(m, start)
        len == next - start
    IN  IF tooFew
        THEN [result |-> FALSE, mem |-> m, nextFree |-> nf, fault |-> FALSE]
        ELSE [result |-> TRUE, mem |-> PutU16(m, 6, NumEvents(m) - 1),
              nextFree |-> nf - len, fault |-> FALSE]

\* discardOldEvent(secondEvent) on buffer m with cursor nf.  fault: the
\* record walk ended past the region, so "after" wrapped around as a size_t
\* and memmove was asked to copy nearly the whole address space.
discardOldEvent(m, nf, secondEvent) ==
    LET tooFew == IF secondEvent THEN NumEvents(m) < 2 ELSE NumEvents(m) < 1
        start == IF secondEvent THEN skipEvent(m, HeaderSize) ELSE HeaderSize
        next == skipEvent(m, start)
        len == next - start
        after == RegionSize - next
    IN  IF tooFew
        THEN [result |-> FALSE, mem |-> m, nextFree |-> nf, fault |-> FALSE]
        ELSE IF after < 0
        THEN [result |-> TRUE, mem |-> m, nextFree |-> nf, fault |-> TRUE]
        ELSE [result |-> TRUE,
              mem |-> PutU16(MemMove(m, start, next, after), 6, NumEvents(m) - 1),
              nextFree |-> nf - len,
              fault |-> FALSE]

\* ---- publish ------------------------------------------------------------
\* the size without the rounding of lines 71-73
EventSizeUnpadded(hostName, path, body) ==
    EventDataSize + Len(hostName) + Len(path) + Len(body) + 3

\* the padded size publish computes from its three string arguments
EventSize(hostName, path, body) ==
    Align4(EventDataSize + Len(hostName) + Len(path) + Len(body) + 3)

\* lines 88-102: the record written at the cursor.  The strings copied are
\* eventName and data, which are not parameters of publish.
WriteEvent(m, nf, port, eventName, data) ==
    LET m1 == PutU16(m, nf, port)
        m2 == StrCpy(m1, nf + EventDataSize, eventName)
        m3 == StrCpy(m2, nf + EventDataSize + Len(eventName) + 1, data)
    IN  PutU16(m3, 6, NumEvents(m3) + 1)

\* publish without the test of lines 77-81 (record larger than the buffer)
publishNoSizeTest(m, nf, sending, hostName, port, path, body, eventName, data) ==
    LET size == Align4(EventDataSize + Len(hostName) + Len(path) + Len(body) + 3)
    IN  IF RegionSize - nf >= size
        THEN [result |-> TRUE, mem |-> WriteEvent(m, nf, port, eventName, data),
              nextFree |-> nf + size, fault |-> FALSE]
        ELSE IF NumEvents(m) = 1
        THEN [result |-> FALSE, mem |-> m, nextFree |-> nf, fault |-> FALSE]
        ELSE LET d == discardOldEvent(m, nf, sending)
             IN  [result |-> FALSE, mem |-> d.mem, nextFree |-> d.nextFree,
                  fault |-> d.fault]

\* publish without the test of lines 110-113 (only one event stored)
publishNoSingleTest(m, nf, sending, hostName, port, path, body, eventName, data) ==
    LET size == Align4(EventDataSize + Len(hostName) + Len(path) + Len(body) + 3)
    IN  IF size > RegionSize - HeaderSize
        THEN [result |-> FALSE, mem |-> m, nextFree |-> nf, fault |-> FALSE]
        ELSE IF RegionSize - nf >= size
        THEN [result |-> TRUE, mem |-> WriteEvent(m, nf, port, eventName, data),
              nextFree |-> nf + size, fault |-> FALSE]
        ELSE LET d == discardOldEvent(m, nf, sending)
             IN  [result |-> FALSE, mem |-> d.mem, nextFree |-> d.nextFree,
                  fault |-> d.fault]

\* publish with discardOldEvent(false) in place of discardOldEvent(isSending)
publishEvictFirst(m, nf, sending, hostName, port, path, body, eventName, data) ==
    LET size == Align4(EventDataSize + Len(hostName) + Len(path) + Len(body) + 3)
    IN  IF size > RegionSize - HeaderSize
        THEN [result |-> FALSE, mem |-> m, nextFree |-> nf, fault |-> FALSE]
        ELSE IF RegionSize - nf >= size
        THEN [result |-> TRUE, mem |-> WriteEvent(m, nf, port, eventName, data),
              nextFree |-> nf + size, fault |-> FALSE]
        ELSE IF NumEvents(m) = 1
        THEN [result |-> FALSE, mem |-> m, nextFree |-> nf, fault |-> FALSE]
        ELSE LET d == discardOldEvent(m, nf, FALSE)
             IN  [result |-> FALSE, mem |-> d.mem, nextFree |-> d.nextFree,
                  fault |-> d.fault]

\* publish(hostName, port, path, body); eventName and data are whatever the
\* names used at lines 94 and 97 denote
publish(m, nf, sending, hostName, port, path, body, eventName, data) ==
    LET size == EventSize(hostName, path, body)
    IN  IF size > RegionSize - HeaderSize
        THEN [result |-> FALSE, mem |-> m, nextFree |-> nf, fault |-> FALSE]
        ELSE IF RegionSize - nf >= size
        THEN [result |-> TRUE, mem |-> WriteEvent(m, nf, port, eventName, data),
              nextFree |-> nf + size, fault |-> FALSE]
        ELSE IF NumEvents(m) = 1
        THEN [result |-> FALSE, mem |-> m, nextFree |-> nf, fault |-> FALSE]
        ELSE LET d == discardOldEvent(m, nf, sending)
             IN  [result |-> FALSE, mem |-> d.mem, nextFree |-> d.nextFree,
                  fault |-> d.fault]

\* ---- clearEvents --------------------------------------------------------
\* clearEvents without the test of isSending
clearEventsAlways(m, nf, sending) ==
    [result |-> TRUE, mem |-> PutU16(m, 6, 0), nextFree |-> nf]

\* clearEvents() on buffer m with cursor nf: only numEvents is written
clearEvents(m, nf, sending) ==
    IF ~sending
    THEN [result |-> TRUE, mem |-> PutU16(m, 6, 0), nextFree |-> nf]
    ELSE [result |-> FALSE, mem |-> m, nextFree |-> nf]

\* ---- reading records -----------------------------------------------------
\* the record at offset p as checkQueueState reads the first one (lines
\* 223-226): data->port, eventName, eventData
EventAt(m, p) ==
    LET name == p + EventDataSize
        payload == NulAt(m, name) + 1
    IN  [port |-> U16At(m, p), eventName |-> StrAt(m, name),
         eventData |-> StrAt(m, payload)]

\* the first record, the one checkQueueState sends
FirstEvent(m) == EventAt(m, HeaderSize)

RECURSIVE EventsFrom(_, _, _)
\* the n records found by walking from p with skipEvent
EventsFrom(m, p, n) ==
    IF n = 0 \/ p + EventDataSize > RegionSize THEN <<>>
    ELSE <<EventAt(m, p)>> \o EventsFrom(m, skipEvent(m, p), n - 1)

\* the stored records, oldest first
Events(m) == EventsFrom(m, HeaderSize, NumEvents(m))

\* ---- initial state ------------------------------------------------------
\* what the retained region may hold at first power-up
PriorRegions == {[i \in 0..(RegionSize - 1) |-> 0]}

NoRequest == [port |-> 0]
\* member initialisers and the thread's entry
Boot(m) ==
    /\ mem = Construct(m).mem
    /\ nextFree = Construct(m).nextFree
    /\ isSending = FALSE
    /\ stateHandler = "startState"
    /\ elapsed = 0
    /\ pc = "idle"
    /\ haveEvent = FALSE
    /\ request = NoRequest
    /\ status = 0
    /\ crashed = FALSE

NoHist == [on |-> FALSE, accepted |-> <<>>, sent |-> <<>>, bytes |-> 0]

Init == /\ \E m \in PriorRegions : Boot(m)
        /\ hist = NoHist

\* the FIFO scenario: publish calls whose padded sizes add up to no more than
\* the usable capacity, and the worker thread; the history is kept
InitFifo == /\ \E m \in PriorRegions : Boot(m)
            /\ hist = [NoHist EXCEPT !.on = TRUE]

\* ---- producer actions ---------------------------------------------------
Publish ==
    /\ ~crashed
    /\ \E t \in Triples, port \in Ports,
          eventName \in CopiedStrings, data \in CopiedStrings :
         LET r == publish(mem, nextFree, isSending, t[1], port, t[2], t[3],
                          eventName, data)
             size == EventSize(t[1], t[2], t[3])
         IN  /\ hist.on => hist.bytes + size <= RegionSize - HeaderSize
             /\ mem' = r.mem
             /\ nextFree' = r.nextFree
             /\ crashed' = r.fault
             /\ hist' = IF hist.on
                        THEN [hist EXCEPT
                                !.accepted = IF r.result THEN Append(@, port) ELSE @,
                                !.bytes = @ + size]
                        ELSE hist
    /\ UNCHANGED <<isSending, stateHandler, elapsed, pc, haveEvent,
                   request, status>>

ClearEvents ==
    /\ ~crashed
    /\ mem' = clearEvents(mem, nextFree, isSending).mem
    /\ nextFree' = clearEvents(mem, nextFree, isSending).nextFree
    /\ UNCHANGED <<isSending, stateHandler, elapsed, pc,
                   haveEvent, request, status, crashed, hist>>

\* ---- the worker thread --------------------------------------------------
\* startState
StartState ==
    /\ ~crashed /\ pc = "idle" /\ stateHandler = "startState"
    /\ stateHandler' = "checkQueueState"
    /\ UNCHANGED <<mem, nextFree, isSending, elapsed, pc, haveEvent,
                   request, status, crashed, hist>>

\* checkQueueState, lines 212-217: haveEvent read under the lock
CheckQueueRead ==
    /\ ~crashed /\ pc = "idle" /\ stateHandler = "checkQueueState"
    /\ haveEvent' = (NumEvents(mem) > 0)
    /\ pc' = "cond"
    /\ UNCHANGED <<mem, nextFree, isSending, stateHandler, elapsed,
                   request, status, crashed, hist>>

\* lines 219-221: the condition; WiFi.ready() is the environment's answer
CheckQueueCond ==
    /\ ~crashed /\ pc = "cond"
    /\ \E wifiReady \in BOOLEAN :
         IF haveEvent /\ wifiReady /\ elapsed >= MinPublishMs
         THEN /\ isSending' = TRUE
              /\ pc' = "request"
         ELSE /\ pc' = "idle"
              /\ UNCHANGED isSending
    /\ haveEvent' = FALSE
    /\ UNCHANGED <<mem, nextFree, stateHandler, elapsed,
                   request, status, crashed, hist>>

\* lines 223-238: the request is filled in.  Only the port is read from the
\* first record (data->port); request.hostname, path and body are set from
\* names that checkQueueState does not bind to the record, so the model
\* keeps no value for them.
CheckQueueRequest ==
    /\ ~crashed /\ pc = "request"
    /\ request' = [port |-> U16At(mem, HeaderSize)]
    /\ pc' = "post"
    /\ UNCHANGED <<mem, nextFree, isSending, stateHandler, elapsed,
                   haveEvent, status, crashed, hist>>

StatusCodes == {200, 503}

\* lines 241-257: http.post returns with some status; on success the first
\* record is discarded, otherwise the thread goes to waitRetryState
CheckQueuePost ==
    /\ ~crashed /\ pc = "post"
    /\ \E s \in StatusCodes :
         /\ status' = s
         /\ hist' = IF hist.on /\ s >= 200 /\ s < 300
                    THEN [hist EXCEPT !.sent = Append(@, request.port)]
                    ELSE hist
         /\ IF s >= 200 /\ s < 300
            THEN LET d == discardOldEvent(mem, nextFree, FALSE)
                 IN  /\ mem' = d.mem
                     /\ nextFree' = d.nextFree
                     /\ crashed' = d.fault
                     /\ UNCHANGED stateHandler
            ELSE /\ stateHandler' = "waitRetryState"
                 /\ UNCHANGED <<mem, nextFree, crashed, hist>>
    /\ pc' = "done"
    /\ UNCHANGED <<isSending, elapsed, haveEvent, request>>

\* lines 258-259
CheckQueueDone ==
    /\ ~crashed /\ pc = "done"
    /\ isSending' = FALSE
    /\ elapsed' = 0
    /\ pc' = "idle"
    /\ UNCHANGED <<mem, nextFree, stateHandler, haveEvent, request, status,
                   crashed, hist>>

\* waitRetryState that never goes back to checkQueueState
WaitRetryStateForever ==
    /\ ~crashed /\ pc = "idle" /\ stateHandler = "waitRetryState"
    /\ stateHandler' = "waitRetryState"
    /\ UNCHANGED <<mem, nextFree, isSending, elapsed, pc, haveEvent,
                   request, status, crashed, hist>>

\* waitRetryState without the test of failureRetryMs
WaitRetryStateAtOnce ==
    /\ ~crashed /\ pc = "idle" /\ stateHandler = "waitRetryState"
    /\ stateHandler' = "checkQueueState"
    /\ UNCHANGED <<mem, nextFree, isSending, elapsed, pc, haveEvent,
                   request, status, crashed, hist>>

\* waitRetryState
WaitRetryState ==
    /\ ~crashed /\ pc = "idle" /\ stateHandler = "waitRetryState"
    /\ stateHandler' = IF elapsed >= failureRetryMs
                       THEN "checkQueueState" ELSE "waitRetryState"
    /\ UNCHANGED <<mem, nextFree, isSending, elapsed, pc, haveEvent,
                   request, status, crashed, hist>>

\* ---- environment --------------------------------------------------------
\* millis() advances
Tick ==
    /\ elapsed + TickMs <= MaxElapsed
    /\ elapsed' = elapsed + TickMs
    /\ UNCHANGED <<mem, nextFree, isSending, stateHandler, pc,
                   haveEvent, request, status, crashed, hist>>

\* the device resets: the retained region keeps its bytes, everything else
\* is constructed again
Reset ==
    /\ mem' = Construct(mem).mem
    /\ nextFree' = Construct(mem).nextFree
    /\ isSending' = FALSE
    /\ stateHandler' = "startState"
    /\ elapsed' = 0
    /\ pc' = "idle"
    /\ haveEvent' = FALSE
    /\ request' = NoRequest
    /\ status' = 0
    /\ crashed' = FALSE
    /\ UNCHANGED hist

\* what the retained region may hold after a power loss disturbed it: one
\* byte of the magic changed, another size, or another numEvents
Corruptions(m) ==
    {[m EXCEPT ![i] = (m[i] + 1) % 256] : i \in 0..3}
      \cup {PutU16(m, 4, v) : v \in {0, RegionSize - 1, RegionSize + 1}}
      \cup {PutU16(m, 6, k) : k \in 0..MaxCorruptCount}

\* the device resets over a disturbed region
ResetCorrupted ==
    /\ \E x \in Corruptions(mem) :
         /\ mem' = Construct(x).mem
         /\ nextFree' = Construct(x).nextFree
    /\ isSending' = FALSE
    /\ stateHandler' = "startState"
    /\ elapsed' = 0
    /\ pc' = "idle"
    /\ haveEvent' = FALSE
    /\ request' = NoRequest
    /\ status' = 0
    /\ crashed' = FALSE
    /\ UNCHANGED hist

Next ==
    \/ Publish
    \/ ClearEvents
    \/ StartState
    \/ CheckQueueRead
    \/ CheckQueueCond
    \/ CheckQueueRequest
    \/ CheckQueuePost
    \/ CheckQueueDone
    \/ WaitRetryState
    \/ Tick

Spec == Init /\ [][Next]_vars

\* the FIFO scenario: no clearEvents
NextFifo ==
    \/ Publish
    \/ StartState
    \/ CheckQueueRead
    \/ CheckQueueCond
    \/ CheckQueueRequest
    \/ CheckQueuePost
    \/ CheckQueueDone
    \/ WaitRetryState
    \/ Tick

SpecFifo == InitFifo /\ [][NextFifo]_vars

\* threadFunction calls the state handler again and again, each call runs to
\* its end, and millis() keeps advancing (up to the value the model follows)
Fairness ==
    /\ WF_vars(StartState)
    /\ WF_vars(CheckQueueRead)
    /\ WF_vars(CheckQueueCond)
    /\ WF_vars(CheckQueueRequest)
    /\ WF_vars(CheckQueuePost)
    /\ WF_vars(CheckQueueDone)
    /\ WF_vars(WaitRetryState)
    /\ WF_vars(Tick)

SpecLive == InitFifo /\ [][NextFifo]_vars /\ Fairness

\* the same with device resets
NextReset ==
    \/ Next
    \/ Reset

SpecReset == Init /\ [][NextReset]_vars

\* the boot scenario: the callers of publish and clearEvents, and resets over
\* the region as it is or disturbed; the worker thread does not get to run
NextBoot ==
    \/ Publish
    \/ ClearEvents
    \/ Reset
    \/ ResetCorrupted

SpecBoot == Init /\ [][NextBoot]_vars

\* ---- properties ---------------------------------------------------------
\* bytes available to records
Usable == RegionSize - HeaderSize
\* status in [200, 300)
Success(s) == s >= 200 /\ s < 300
\* a transport attempt was made and did not succeed
Failure(s) == s # 0 /\ ~Success(s)

\* every publish call of the model
Calls == [t : Triples, port : Ports, eventName : CopiedStrings, data : CopiedStrings]
SizeOf(c) == EventSize(c.t[1], c.t[2], c.t[3])
\* the outcome of call c on buffer m with cursor nf
Call(m, nf, sending, c) ==
    publish(m, nf, sending, c.t[1], c.port, c.t[2], c.t[3], c.eventName, c.data)

IsPrefix(a, b) == Len(a) <= Len(b) /\ \A i \in 1..Len(a) : a[i] = b[i]
RECURSIVE IsSubseq(_, _)
IsSubseq(a, b) ==
    IF a = <<>> THEN TRUE
    ELSE IF b = <<>> THEN FALSE
    ELSE IF Head(a) = Head(b) THEN IsSubseq(Tail(a), Tail(b))
    ELSE IsSubseq(a, Tail(b))
\* how many times p occurs in sequence s
Occurrences(s, p) == Cardinality({i \in 1..Len(s) : s[i] = p})

\* C1: when the padded sizes of the publish calls add up to no more than the
\* usable capacity, every publish returns true, and the records read and
\* removed from the front come out in publish order with the published
\* fields (here: the ports), so the ports sent are a prefix of the ports
\* accepted.
C1_FifoRoundTrip ==
    /\ \A c \in Calls :
         hist.bytes + SizeOf(c) <= Usable => Call(mem, nextFree, isSending, c).result
    /\ IsPrefix(hist.sent, hist.accepted)

\* C2: in every reachable state publish returns false only when the record
\* is oversized, or when exactly one record is stored and the tail lacks
\* room.
C2_FalseOnlyTwoCases ==
    \A c \in Calls :
      ~Call(mem, nextFree, isSending, c).result =>
          \/ SizeOf(c) > Usable
          \/ NumEvents(mem) = 1 /\ RegionSize - nextFree < SizeOf(c)

\* C3: with two records stored, no send in flight, no room at the tail for a
\* record that is not oversized and that fits once the first record is gone,
\* publish returns true and leaves the old second record followed by the
\* new one, numEvents = 2.
C3_EvictThenAppend ==
    \A c \in Calls :
      LET r == Call(mem, nextFree, isSending, c)
          firstLen == skipEvent(mem, HeaderSize) - HeaderSize
      IN  (/\ NumEvents(mem) = 2 /\ ~isSending /\ SizeOf(c) <= Usable
           /\ RegionSize - nextFree < SizeOf(c)
           /\ RegionSize - (nextFree - firstLen) >= SizeOf(c))
          => /\ r.result
             /\ NumEvents(r.mem) = 2
             /\ Events(r.mem)[1] = Events(mem)[2]
             /\ Events(r.mem)[2].port = c.port

C5_ClearLikeFresh ==
    ~isSending =>
      LET c0 == clearEvents(mem, nextFree, isSending)
      IN  /\ c0.result
          /\ NumEvents(c0.mem) = 0
          /\ c0.nextFree = HeaderSize
          /\ \A c \in Calls : SizeOf(c) <= Usable =>
                LET r == Call(c0.mem, c0.nextFree, isSending, c)
                IN  r.result /\ NumEvents(r.mem) = 1 /\ FirstEvent(r.mem).port = c.port

\* C6: a transport attempt that does not succeed leaves the buffer and the
\* cursor as they were and sets the state to waitRetryState; isSending is
\* cleared when the attempt ends; no transport call is under way while the
\* state is waitRetryState; the attempt that follows a failed one starts no
\* sooner than failureRetryMs after it and sends the record that is first at
\* that time; and between attempts the worker thread itself never changes
\* the buffer, so the record stays first unless a producer removes it.
C6_FailureKeepsAndWaits ==
    /\ [][pc = "post" /\ pc' = "done" /\ ~Success(status')
          => /\ mem' = mem /\ nextFree' = nextFree
             /\ stateHandler' = "waitRetryState"]_vars
    /\ [][pc = "done" /\ pc' = "idle" => ~isSending']_vars
    /\ [][mem' # mem /\ (pc' # pc \/ stateHandler' # stateHandler)
          => pc = "post" /\ Success(status')]_vars
    /\ [](stateHandler = "waitRetryState" => pc \in {"done", "idle"})
    /\ [](Failure(status) /\ pc \in {"request", "post"} => elapsed >= failureRetryMs)
    /\ [](Failure(status) /\ pc = "post" => request.port = FirstEvent(mem).port)

\* the retry of a failed attempt is in the transport, a record being stored
C6_Witness ==
    Failure(status) /\ pc = "post" /\ NumEvents(mem) >= 1 /\ elapsed >= failureRetryMs

\* C7: a transport attempt that succeeds removes exactly one record, the
\* one whose port was passed to the transport, and leaves the state at
\* checkQueueState, whatever the producers did in between.
C7_SuccessRemovesOne ==
    [][pc = "post" /\ pc' = "done" /\ Success(status')
       => /\ NumEvents(mem') = NumEvents(mem) - 1
          /\ Events(mem') = Tail(Events(mem))
          /\ stateHandler' = "checkQueueState"]_vars

\* C8: no accepted record disappears unsent: with no clearEvents and no
\* eviction, once the buffer is empty and the thread is idle every port
\* accepted has been sent with success as often as it was accepted.
C8_NothingLostUnsent ==
    NumEvents(mem) = 0 /\ pc = "idle"
      => \A p \in Ports : Occurrences(hist.sent, p) >= Occurrences(hist.accepted, p)

\* C9: the records sent with success are a subsequence of the records
\* accepted, in the same order.
C9_SentSubsequence == IsSubseq(hist.sent, hist.accepted)

\* C10: whenever the transport is invoked the buffer holds at least one
\* record, at least MinPublishMs have elapsed since the previous attempt,
\* and the port passed is the one of the first stored record.
C10_PostOnlyWithRecord ==
    pc = "post" => /\ NumEvents(mem) > 0
                   /\ elapsed >= MinPublishMs
                   /\ request.port = FirstEvent(mem).port

\* C11: publish of a record whose padded size exceeds the buffer size minus
\* the header size returns false and changes neither the buffer (numEvents,
\* every stored byte) nor the cursor, whatever is stored and whether or not
\* a send is in flight.
C11_OversizedRefused ==
    \A c \in Calls :
      SizeOf(c) > Usable =>
        LET r == Call(mem, nextFree, isSending, c)
        IN  ~r.result /\ r.mem = mem /\ r.nextFree = nextFree

\* two records are stored, a send is in flight, and an oversized call exists
C11_Witness ==
    /\ isSending /\ NumEvents(mem) >= 2
    /\ \E c \in Calls : SizeOf(c) > Usable

\* C12: with exactly one record stored and too little room at the tail for
\* a record that is not oversized, publish returns false and leaves
\* numEvents = 1, the cursor and the stored record as they were, with
\* isSending true or false.
C12_SingleRecordKept ==
    \A c \in Calls :
      (NumEvents(mem) = 1 /\ SizeOf(c) <= Usable /\ RegionSize - nextFree < SizeOf(c))
        => LET r == Call(mem, nextFree, isSending, c)
           IN  /\ ~r.result
               /\ r.mem = mem /\ r.nextFree = nextFree
               /\ NumEvents(r.mem) = 1 /\ FirstEvent(r.mem) = FirstEvent(mem)

\* one record is stored, no send is in flight, and some publish that is not
\* oversized finds no room
C12_Witness ==
    /\ ~isSending /\ NumEvents(mem) = 1
    /\ \E c \in Calls : SizeOf(c) <= Usable /\ RegionSize - nextFree < SizeOf(c)

\* C13: with two or more records stored, a publish that returns false
\* leaves the buffer and the cursor as they were.
C13_FalseChangesNothing ==
    \A c \in Calls :
      LET r == Call(mem, nextFree, isSending, c)
      IN  (NumEvents(mem) >= 2 /\ ~r.result)
            => /\ r.mem = mem /\ r.nextFree = nextFree
               /\ Events(r.mem) = Events(mem)

\* C14: clearEvents while isSending is true returns false and leaves the
\* buffer and the cursor as they were; clearEvents while isSending is false
\* returns true and leaves no record.
C14_ClearRespectsSending ==
    LET c0 == clearEvents(mem, nextFree, isSending)
    IN  IF isSending
        THEN ~c0.result /\ c0.mem = mem /\ c0.nextFree = nextFree
        ELSE c0.result /\ NumEvents(c0.mem) = 0 /\ Events(c0.mem) = <<>>

\* a send is in flight with a stored record handed to the transport
C14_Witness ==
    isSending /\ pc = "post" /\ NumEvents(mem) >= 1 /\ nextFree > HeaderSize

\* region m has a good header and no record, and nf is right after the header
ValidEmpty(m, nf) ==
    HdrMagicOk(m) /\ HdrSize(m) = RegionSize /\ NumEvents(m) = 0 /\ nf = HeaderSize

\* C15: the constructor over a region with a wrong magic, with a recorded
\* size other than the buffer size, or whose walk over numEvents records
\* runs past the end, leaves a valid empty buffer (magic, size, numEvents = 0,
\* cursor right after the header) whatever the region held; a region with a
\* good header whose walk ends at or before the end, the end included, is
\* kept as it is with the cursor where the walk ended.
C15_InitHealsOrKeeps ==
    \A x \in Corruptions(mem) \cup {mem} :
      LET c == Construct(x)
          walked == WalkEvents(x, HeaderSize, NumEvents(x))
      IN  IF ~HdrMagicOk(x) \/ HdrSize(x) # RegionSize \/ walked > RegionSize
          THEN /\ ValidEmpty(c.mem, c.nextFree)
               /\ \A i \in HeaderSize..(RegionSize - 1) : c.mem[i] = x[i]
          ELSE c.mem = x /\ c.nextFree = walked

\* two records are stored and their walk ends exactly at the end of the
\* region
C15_Witness ==
    /\ HdrMagicOk(mem) /\ HdrSize(mem) = RegionSize /\ NumEvents(mem) = 2
    /\ WalkEvents(mem, HeaderSize, NumEvents(mem)) = RegionSize

\* C16: a reset in any reachable state, a send in flight or not, followed by
\* the constructor over the same region leaves the region as it was, the
\* same records in the same order, and the cursor at the value it had before
\* the reset; the constructor run once more changes nothing.
C16_ResetKeepsState ==
    LET c == Construct(mem)
    IN  /\ c.mem = mem
        /\ Events(c.mem) = Events(mem)
        /\ c.nextFree = nextFree
        /\ Construct(c.mem) = c

\* C17: in every reachable state the cursor is the offset reached by
\* walking numEvents records from the first byte after the header, the value
\* the constructor would compute.
C17_CursorIsWalkEnd ==
    nextFree = WalkEvents(mem, HeaderSize, NumEvents(mem))

RECURSIVE EventStarts(_, _, _)
\* the offsets at which the n records walked from p start
EventStarts(m, p, n) ==
    IF n = 0 \/ p >= RegionSize THEN {}
    ELSE {p} \cup EventStarts(m, skipEvent(m, p), n - 1)

\* C18: in every reachable state the cursor lies between the end of the
\* header and the end of the region and is a multiple of 4, every stored
\* record starts at a multiple of 4, the walk over numEvents records ends at
\* or before the end of the region, and numEvents is never decremented below
\* 0 (no step raises it by more than one).
C18_CursorAndWalkInBounds ==
    /\ [](nextFree \in HeaderSize..RegionSize /\ nextFree % 4 = 0)
    /\ [](\A p \in EventStarts(mem, HeaderSize, NumEvents(mem)) : p % 4 = 0)
    /\ [](WalkEvents(mem, HeaderSize, NumEvents(mem)) <= RegionSize)
    /\ [][NumEvents(mem') <= NumEvents(mem) + 1]_vars

\* two records fill the region up to its last byte
C18_Witness ==
    /\ NumEvents(mem) = 2 /\ nextFree = RegionSize
    /\ WalkEvents(mem, HeaderSize, NumEvents(mem)) = RegionSize
    /\ Events(mem)[1].port # Events(mem)[2].port

\* sequence s without its k-th element
Without(s, k) == SubSeq(s, 1, k - 1) \o SubSeq(s, k + 1, Len(s))

C20_StateMachine ==
    /\ [][stateHandler' # stateHandler =>
            \/ /\ stateHandler = "startState"
               /\ stateHandler' = "checkQueueState"
            \/ /\ stateHandler = "checkQueueState"
               /\ stateHandler' = "waitRetryState"
               /\ pc = "post" /\ ~Success(status')
            \/ /\ stateHandler = "waitRetryState"
               /\ stateHandler' = "checkQueueState"
               /\ elapsed >= failureRetryMs
               /\ mem' = mem /\ nextFree' = nextFree /\ isSending' = isSending]_vars
    /\ [][stateHandler = "startState" /\ pc' # pc => FALSE]_vars
    /\ [][stateHandler = "waitRetryState" /\ pc = "idle"
            => pc' = "idle" /\ isSending' = isSending]_vars
    /\ (stateHandler = "startState" ~> stateHandler = "checkQueueState")
    /\ (stateHandler = "waitRetryState" ~> stateHandler = "checkQueueState")

\* the thread is back in checkQueueState after a failed attempt and the wait
C20_Witness ==
    /\ stateHandler = "checkQueueState" /\ pc = "idle"
    /\ Failure(status) /\ elapsed >= failureRetryMs /\ ~isSending
=============================================================================
